---- MODULE Spec2Model ----
(***************************************************************************)
(* Address-space bookkeeping of the LiteX SoC builder                      *)
(* (litex/soc/integration/soc.py): SoCRegion, SoCIORegion and the region   *)
(* part of SoCBusHandler (add_region, alloc_region, check_regions_overlap, *)
(* check_region_is_in, check_region_is_io, add_slave), the location        *)
(* allocator SoCLocHandler (add, alloc), and the bus build                 *)
(* (add_master, do_finalize, SoCRegion.decoder).                           *)
(*                                                                         *)
(* Python dicts keep insertion order, so `regions`, `io_regions` and       *)
(* `slaves` are sequences.  A raised SoCError ends the build: the state is *)
(* left as the handler left it when it raised, `result` names the raise    *)
(* site, and no further operation runs.                                    *)
(***************************************************************************)
EXTENDS Integers, Sequences, FiniteSets, TLC

VARIABLES regions, io_regions, slaves, io_regions_check, result, call,
          locs, n_locs, loc_result, loc_call,
          masters, interconnect, finalized, _interconnect,
          adapter, enabled, twin, made, irq

\* The state of a SoCLocHandler.
locvars == <<locs, n_locs, loc_result, loc_call>>
\* The address-space bookkeeping of a SoCBusHandler.
busvars == <<regions, io_regions, slaves, io_regions_check, result, call>>
\* The part of a SoCBusHandler that its finalization reads and writes.
finvars == <<masters, interconnect, finalized, _interconnect>>

\* The last interface add_adapter was given, the IRQ handler's switch, and
\* a second bus that replays the calls of the first, and the last region
\* constructed on its own, and the arguments of SoCIRQHandler(...).
auxvars == <<adapter, enabled, twin, made, irq>>

vars == <<busvars, locvars, finvars, auxvars>>

---------------------------------------------------------------------------
(* Bounds of the model.                                                    *)

\* Width of the modelled bus address (the code supports 32 and 64).
AddressWidth == 4
\* Largest number of entries of regions and io_regions together.
MaxRegions == 3
\* Largest number of registered slaves.
MaxSlaves == 1

\* Python's None, for an origin or a name that is not given.
None == -1
NoName == ""
\* self._interconnect of a bus whose do_finalize built nothing.
NoInterconnect == [kind |-> "none", slaves |-> <<>>]

Origins == {0, 4}
Sizes == {3, 4, 5}
Names == {"rom", "ram", "slave0"}
Modes == {"rw"}
Decodes == {TRUE}

---------------------------------------------------------------------------
(* SoCRegion                                                               *)

RECURSIVE BitLength(_)
BitLength(n) == IF n = 0 THEN 0 ELSE 1 + BitLength(n \div 2)

\* migen's log2_int(n, need_pow2=False), as SoCRegion uses it.
Log2Int(n) == IF n = 0 THEN 0 ELSE BitLength(n - 1)

\* Rounding to the power of two above the bit length of the size itself.
SizePow2Next(size) == 2 ^ BitLength(size)

SizePow2(size) == 2 ^ Log2Int(size)

SoCRegion(origin, size, mode, cached, linker, decode) ==
    [io        |-> FALSE,
     origin    |-> origin,
     decode    |-> decode,
     size      |-> size,
     size_pow2 |-> SizePow2(size),
     mode      |-> mode,
     cached    |-> cached,
     linker    |-> linker]

SoCIORegion(origin, size, mode, cached, linker, decode) ==
    [SoCRegion(origin, size, mode, cached, linker, decode) EXCEPT !.io = TRUE]

\* An entry of an ordered dict of regions.
Entry(name, region) == [name |-> name, region |-> region]

Keys(d) == {d[i].name : i \in 1..Len(d)}

\* d[name], for a name that is a key of d.
Get(d, name) == (CHOOSE i \in 1..Len(d) : d[i].name = name)

Lookup(d, name) == d[Get(d, name)].region

---------------------------------------------------------------------------
(* SoCBusHandler: check_regions_overlap, check_region_is_in,               *)
(* check_region_is_io                                                      *)

NoOverlap == <<>>

\* check_regions_overlap with an inner loop that looks at the next key only.
OverlapPairsAdjacent(d, check_linker) ==
    {p \in (1..Len(d)) \X (1..Len(d)) :
        /\ p[2] = p[1] + 1
        /\ ~((d[p[1]].region.linker \/ d[p[2]].region.linker) /\ ~check_linker)
        /\ ~(d[p[1]].region.origin >= d[p[2]].region.origin + d[p[2]].region.size_pow2)
        /\ ~(d[p[2]].region.origin >= d[p[1]].region.origin + d[p[1]].region.size_pow2)}

\* The pairs (i, j), i < j, the two loops do not skip.
OverlapPairs(d, check_linker) ==
    {p \in (1..Len(d)) \X (1..Len(d)) :
        /\ p[1] < p[2]
        /\ ~((d[p[1]].region.linker \/ d[p[2]].region.linker) /\ ~check_linker)
        /\ ~(d[p[1]].region.origin >= d[p[2]].region.origin + d[p[2]].region.size_pow2)
        /\ ~(d[p[2]].region.origin >= d[p[1]].region.origin + d[p[1]].region.size_pow2)}

\* The first such pair in the loops' order, as names; NoOverlap for None.
check_regions_overlap(d, check_linker) ==
    LET ps == OverlapPairs(d, check_linker)
    IN  IF ps = {} THEN NoOverlap
        ELSE LET p == CHOOSE q \in ps :
                        \A o \in ps : \/ q[1] < o[1]
                                      \/ (q[1] = o[1] /\ q[2] <= o[2])
             IN  <<d[p[1]].name, d[p[2]].name>>

\* check_region_is_in without the test of the region's end.
check_region_is_in_start_only(region, container) ==
    region.origin >= container.origin

check_region_is_in(region, container) ==
    /\ region.origin >= container.origin
    /\ (region.origin + region.size) <= (container.origin + container.size)

check_region_is_io(ios, region) ==
    \E i \in 1..Len(ios) : check_region_is_in(region, ios[i].region)

---------------------------------------------------------------------------
(* SoCBusHandler.alloc_region                                              *)

AllocFail == [origin |-> None]

\* The search regions: the I/O regions, or the whole address space.
SearchRegions(ios, cached, address_width) ==
    IF cached = FALSE
    THEN ios
    ELSE <<Entry("main", SoCRegion(0, 2 ^ address_width - 1, "rw", TRUE, FALSE, TRUE))>>

\* alloc_region's loop without the step that aligns the origin on the size.
RECURSIVE AllocScanNoAlign(_, _, _, _, _)
AllocScanNoAlign(rs, search_region, origin, size, cached) ==
    IF ~((origin + size) < (search_region.origin + search_region.size_pow2))
    THEN AllocFail
    ELSE LET candidate == SoCRegion(origin, size, "rw", cached, FALSE, TRUE)
             overlap   == \E i \in 1..Len(rs) :
                             check_regions_overlap(
                                 <<Entry("0", rs[i].region), Entry("1", candidate)>>,
                                 FALSE) # NoOverlap
         IN  IF overlap
             THEN AllocScanNoAlign(rs, search_region, origin + size, size, cached)
             ELSE candidate

\* alloc_region's loop stepping over an overlap by twice the size.
RECURSIVE AllocScanSkip(_, _, _, _, _)
AllocScanSkip(rs, search_region, origin, size, cached) ==
    LET size_pow2 == SizePow2(size)
    IN  IF ~((origin + size) < (search_region.origin + search_region.size_pow2))
        THEN AllocFail
        ELSE IF (origin % size_pow2) # 0
        THEN AllocScanSkip(rs, search_region, origin + (size_pow2 - (origin % size_pow2)),
                           size, cached)
        ELSE LET candidate == SoCRegion(origin, size, "rw", cached, FALSE, TRUE)
                 overlap   == \E i \in 1..Len(rs) :
                                 check_regions_overlap(
                                     <<Entry("0", rs[i].region), Entry("1", candidate)>>,
                                     FALSE) # NoOverlap
             IN  IF overlap
                 THEN AllocScanSkip(rs, search_region, origin + 2 * size, size, cached)
                 ELSE candidate

\* The while loop over one search region, from `origin` on: the candidate
\* selected, or AllocFail when the loop ends without one.
RECURSIVE AllocScan(_, _, _, _, _)
AllocScan(rs, search_region, origin, size, cached) ==
    LET size_pow2 == SizePow2(size)
    IN  IF ~((origin + size) < (search_region.origin + search_region.size_pow2))
        THEN AllocFail
        ELSE IF (origin % size_pow2) # 0
        THEN AllocScan(rs, search_region, origin + (size_pow2 - (origin % size_pow2)),
                       size, cached)
        ELSE LET candidate == SoCRegion(origin, size, "rw", cached, FALSE, TRUE)
                 overlap   == \E i \in 1..Len(rs) :
                                 check_regions_overlap(
                                     <<Entry("0", rs[i].region), Entry("1", candidate)>>,
                                     FALSE) # NoOverlap
             IN  IF overlap
                 THEN AllocScan(rs, search_region, origin + size, size, cached)
                 ELSE candidate

\* The for loop over the search regions, from the k-th on.
RECURSIVE AllocFrom(_, _, _, _, _)
AllocFrom(rs, search_regions, k, size, cached) ==
    IF k > Len(search_regions)
    THEN AllocFail
    ELSE LET sr == search_regions[k].region
             c  == AllocScan(rs, sr, sr.origin, size, cached)
         IN  IF c # AllocFail THEN c
             ELSE AllocFrom(rs, search_regions, k + 1, size, cached)

alloc_region(rs, ios, size, cached, address_width) ==
    AllocFrom(rs, SearchRegions(ios, cached, address_width), 1, size, cached)

---------------------------------------------------------------------------
(* SoCBusHandler.add_region                                                *)

Outcome(rs, ios, res, allocated) ==
    [regions |-> rs, io_regions |-> ios, result |-> res, allocated |-> allocated]

\* The duplicate-name test looking at `regions` only.
NameDeclaredRegionsOnly(rs, ios, name) == name \in Keys(rs)

\* The duplicate-name test that opens add_region.
NameDeclared(rs, ios, name) == name \in Keys(rs) \/ name \in Keys(ios)

\* add_region on the collections rs, ios: the collections it leaves, the
\* raise site ("ok" when it returns) and its `allocated` flag.
add_region(rs, ios, check, name, region) ==
    IF NameDeclared(rs, ios, name)
    THEN Outcome(rs, ios, "duplicate", FALSE)
    ELSE IF region.io
    THEN LET ios2 == Append(ios, Entry(name, region))
         IN  IF check_regions_overlap(ios2, FALSE) # NoOverlap
             THEN Outcome(rs, ios2, "io_overlap", FALSE)
             ELSE Outcome(rs, ios2, "ok", FALSE)
    ELSE IF region.origin = None
    THEN LET r == alloc_region(rs, ios, region.size, region.cached, AddressWidth)
         IN  IF r = AllocFail
             THEN Outcome(rs, ios, "no_space", TRUE)
             ELSE Outcome(Append(rs, Entry(name, r)), ios, "ok", TRUE)
    ELSE IF check /\ check_region_is_io(ios, region) /\ region.cached
    THEN Outcome(rs, ios, "io_cached", FALSE)
    ELSE IF check /\ ~check_region_is_io(ios, region) /\ ~region.cached
    THEN Outcome(rs, ios, "not_io", FALSE)
    ELSE LET rs2 == Append(rs, Entry(name, region))
         IN  IF check_regions_overlap(rs2, FALSE) # NoOverlap
             THEN Outcome(rs2, ios, "overlap", FALSE)
             ELSE Outcome(rs2, ios, "ok", FALSE)

---------------------------------------------------------------------------
(* The requests of the builder.                                            *)

\* Cached regions, I/O-side regions, and linker regions as add_ethernet
\* declares them (linker = True, cached = False).
RegionFlags == {<<TRUE, FALSE>>, <<FALSE, FALSE>>, <<FALSE, TRUE>>}

RegionRequests ==
    {SoCRegion(o, s, m, f[1], f[2], d) :
        o \in Origins \cup {None}, s \in Sizes, m \in Modes,
        f \in RegionFlags, d \in Decodes}

\* I/O regions as SoC.add_cpu declares them.
IORegionRequests ==
    {SoCIORegion(o, s, "rw", FALSE, FALSE, TRUE) : o \in Origins, s \in Sizes}

NoRegion == SoCRegion(None, 0, "rw", TRUE, FALSE, TRUE)

Call(op, name, region, allocated) ==
    [op |-> op, name |-> name, region |-> region, allocated |-> allocated]

Init ==
    /\ regions = <<>>
    /\ io_regions = <<>>
    /\ slaves = <<>>
    /\ io_regions_check = TRUE
    /\ result = "ok"
    /\ call = Call("init", NoName, NoRegion, FALSE)

Room == Len(regions) + Len(io_regions) < MaxRegions

AddRegion(name, region) ==
    /\ result = "ok"
    /\ LET out == add_region(regions, io_regions, io_regions_check, name, region)
       IN  /\ regions' = out.regions
           /\ io_regions' = out.io_regions
           /\ result' = out.result
           /\ call' = Call("add_region", name, region, out.allocated)
    /\ UNCHANGED <<slaves, io_regions_check, locvars, finvars, auxvars>>

---------------------------------------------------------------------------
(* SoCBusHandler.add_slave                                                 *)

SlaveName(sl, name) ==
    IF name = NoName THEN "slave" \o ToString(Len(sl)) ELSE name

SlaveOutcome(rs, ios, sl, res, allocated) ==
    [regions |-> rs, io_regions |-> ios, slaves |-> sl, result |-> res,
     allocated |-> allocated]

\* add_slave: `region` is NoRegion when the call gives none.  The slave's
\* bus interface (add_offset, add_adapter) is not part of this state.
add_slave(rs, ios, sl, check, name, region) ==
    IF name = NoName /\ region = NoRegion
    THEN SlaveOutcome(rs, ios, sl, "unspecified", FALSE)
    ELSE LET n == SlaveName(sl, name)
         IN  IF region = NoRegion
             THEN IF n \notin Keys(rs)
                  THEN SlaveOutcome(rs, ios, sl, "region_not_found", FALSE)
                  ELSE IF n \in Keys(sl)
                  THEN SlaveOutcome(rs, ios, sl, "slave_duplicate", FALSE)
                  ELSE SlaveOutcome(rs, ios, Append(sl, [name |-> n]), "ok", FALSE)
             ELSE LET out == add_region(rs, ios, check, n, region)
                  IN  IF out.result # "ok"
                      THEN SlaveOutcome(out.regions, out.io_regions, sl,
                                        out.result, out.allocated)
                      ELSE IF n \in Keys(sl)
                      THEN SlaveOutcome(out.regions, out.io_regions, sl,
                                        "slave_duplicate", out.allocated)
                      ELSE SlaveOutcome(out.regions, out.io_regions,
                                        Append(sl, [name |-> n]), "ok", out.allocated)

\* A further slave, with a region of its own or not, fits the bounds.
SlaveRoom(region) == (region = NoRegion \/ Room) /\ Len(slaves) < MaxSlaves

AddSlave(name, region) ==
    /\ result = "ok"
    /\ LET out == add_slave(regions, io_regions, slaves, io_regions_check, name, region)
       IN  /\ regions' = out.regions
           /\ io_regions' = out.io_regions
           /\ slaves' = out.slaves
           /\ result' = out.result
           /\ call' = Call("add_slave", SlaveName(slaves, name), region, out.allocated)
    /\ UNCHANGED <<io_regions_check, locvars, finvars, auxvars>>

\* SoC.add_cpu with CPUNone.
DisableIORegionsCheck ==
    /\ result = "ok"
    /\ io_regions_check
    /\ io_regions_check' = FALSE
    /\ call' = Call("io_regions_check", NoName, NoRegion, FALSE)
    /\ UNCHANGED <<regions, io_regions, slaves, result, locvars, finvars,
                   auxvars>>

Next ==
    \/ \E name \in Names, region \in RegionRequests \cup IORegionRequests :
          Room /\ AddRegion(name, region)
    \/ \E name \in Names \cup {NoName},
          region \in RegionRequests \cup IORegionRequests \cup {NoRegion} :
          SlaveRoom(region) /\ AddSlave(name, region)
    \/ DisableIORegionsCheck

---------------------------------------------------------------------------
(* SoCBusHandler.add_master                                                *)

\* A default name numbered by the masters of the first bus, whichever bus
\* asks.
MasterNameShared(ms, name) ==
    IF name = NoName THEN "master" \o ToString(Len(masters)) ELSE name

MasterName(ms, name) ==
    IF name = NoName THEN "master" \o ToString(Len(ms)) ELSE name

\* add_master: the masters it leaves and the raise site.  The master's bus
\* interface (add_remapper, add_adapter) is not part of this state.
add_master(ms, name) ==
    LET n == MasterName(ms, name)
    IN  IF n \in Keys(ms)
        THEN [masters |-> ms, result |-> "master_duplicate"]
        ELSE [masters |-> Append(ms, [name |-> n]), result |-> "ok"]

AddMaster(name) ==
    /\ result = "ok"
    /\ LET out == add_master(masters, name)
       IN  /\ masters' = out.masters
           /\ result' = out.result
           /\ call' = Call("add_master", MasterName(masters, name), NoRegion, FALSE)
    /\ UNCHANGED <<regions, io_regions, slaves, io_regions_check, locvars,
                   interconnect, finalized, _interconnect, auxvars>>

---------------------------------------------------------------------------
(* SoCRegion.decoder and SoCBusHandler.do_finalize                         *)

\* Width of the bus data (the default of SoCBusHandler).
DataWidth == 32

\* The lambdas decoder returns: `lambda a: True`, and
\* `lambda a: a[shift:] == value`.
DecodeAlways == [error |-> FALSE, always |-> TRUE, shift |-> 0, value |-> 0]
DecodeSlice(shift, value) ==
    [error |-> FALSE, always |-> FALSE, shift |-> shift, value |-> value]
\* decoder's raise.
DecodeUnaligned == [error |-> TRUE, always |-> FALSE, shift |-> 0, value |-> 0]

\* A decoder that compares byte addresses: origin and size are not brought
\* to words.
decoderBytes(region, address_width, data_width) ==
    IF (region.origin % region.size_pow2) # 0
    THEN DecodeUnaligned
    ELSE IF ~region.decode
            \/ (region.origin = 0 /\ region.size_pow2 = 2 ^ address_width)
    THEN DecodeAlways
    ELSE DecodeSlice(Log2Int(region.size_pow2),
                     region.origin \div region.size_pow2)

\* region.decoder(bus)
decoder(region, address_width, data_width) ==
    IF (region.origin % region.size_pow2) # 0
    THEN DecodeUnaligned
    ELSE IF ~region.decode
            \/ (region.origin = 0 /\ region.size_pow2 = 2 ^ address_width)
    THEN DecodeAlways
    ELSE LET words  == 2 ^ Log2Int(data_width \div 8)
             origin == region.origin \div words
             size   == region.size_pow2 \div words
         IN  DecodeSlice(Log2Int(size), origin \div (2 ^ Log2Int(size)))

\* The value of a decoder's lambda on the bus-word address a.
Decode(d, a) == d.always \/ (a \div (2 ^ d.shift)) = d.value

\* The point-to-point interconnect, and the shared or crossbar one with its
\* (decoder, slave) pairs.
PointToPoint == [kind |-> "p2p", slaves |-> <<>>]
Interconnect(kind, pairs) == [kind |-> kind, slaves |-> pairs]

FinalizeOutcome(ic, res) == [_interconnect |-> ic, result |-> res]

\* The list comprehension of do_finalize: one (decoder, slave) pair per
\* slave, in the order of `slaves`.
DecoderPairs(rs, sl) ==
    [i \in 1..Len(sl) |->
        [name |-> sl[i].name,
         decoder |-> decoder(Lookup(rs, sl[i].name), AddressWidth, DataWidth)]]

\* do_finalize on the collections ms, sl, rs of a bus built with
\* interconnect = ic.
do_finalize(ms, sl, rs, ic) ==
    IF Len(ms) = 0 \/ Len(sl) = 0
    THEN FinalizeOutcome(NoInterconnect, "ok")
    ELSE IF Len(ms) = 1 /\ Len(sl) = 1 /\ Len(rs) = 0
    THEN FinalizeOutcome(NoInterconnect, "stop_iteration")
    ELSE IF Len(ms) = 1 /\ Len(sl) = 1 /\ rs[1].region.origin = 0
    THEN FinalizeOutcome(PointToPoint, "ok")
    ELSE IF Len(rs) > 1 /\ \E i \in 1..Len(rs) : ~rs[i].region.decode
    THEN FinalizeOutcome(NoInterconnect, "decode_disabled")
    ELSE IF \E i \in 1..Len(sl) : sl[i].name \notin Keys(rs)
    THEN FinalizeOutcome(NoInterconnect, "key_error")
    ELSE LET pairs == DecoderPairs(rs, sl)
         IN  IF \E i \in 1..Len(sl) : pairs[i].decoder.error
             THEN FinalizeOutcome(NoInterconnect, "unaligned")
             ELSE FinalizeOutcome(Interconnect(ic, pairs), "ok")

\* SoCBusHandler(interconnect = "shared" or "crossbar")
InitFin ==
    /\ masters = <<>>
    /\ interconnect \in {"shared", "crossbar"}
    /\ finalized = FALSE
    /\ _interconnect = NoInterconnect

\* A finalized test that never sees the flag.
AlreadyFinalizedNever(fin) == FALSE
\* `if self.finalized: return`
AlreadyFinalized(fin) == fin

\* bus.finalize(): do_finalize runs on the first call only.
Finalize ==
    /\ result = "ok"
    /\ finalized' = TRUE
    /\ call' = Call("finalize", NoName, NoRegion, FALSE)
    /\ IF AlreadyFinalized(finalized)
       THEN UNCHANGED <<_interconnect, result>>
       ELSE LET out == do_finalize(masters, slaves, regions, interconnect)
            IN  /\ _interconnect' = out._interconnect
                /\ result' = out.result
    /\ UNCHANGED <<regions, io_regions, slaves, io_regions_check, locvars,
                   masters, interconnect, auxvars>>

\* Bounds of the bus that is finalized.
MaxBusRegions == 2
MaxBusSlaves == 2
MaxMasters == 2

BusOrigins == {0, 2, 8}
BusSizes == {2, 8, 16}
BusNames == {"rom", "ram"}
MasterNames == {"cpu", "master1"}

\* Regions with and without decoding, and a linker region as add_ethernet
\* and add_rom-like callers declare them.
BusRegionRequests ==
    {SoCRegion(o, s, "rw", TRUE, FALSE, d) :
        o \in BusOrigins, s \in BusSizes, d \in BOOLEAN}
    \cup {SoCRegion(0, 8, "rw", TRUE, TRUE, TRUE)}

BusIORegionRequests == {SoCIORegion(8, 8, "rw", FALSE, FALSE, TRUE)}

BusRoom == Len(regions) + Len(io_regions) < MaxBusRegions

BusSlaveRoom(region) ==
    (region = NoRegion \/ BusRoom) /\ Len(slaves) < MaxBusSlaves

NextBus ==
    \/ \E name \in BusNames, region \in BusRegionRequests :
          BusRoom /\ AddRegion(name, region)
    \/ \E name \in BusNames \cup {NoName},
          region \in BusRegionRequests \cup BusIORegionRequests \cup {NoRegion} :
          BusSlaveRoom(region) /\ AddSlave(name, region)
    \/ \E name \in MasterNames \cup {NoName} :
          Len(masters) < MaxMasters /\ AddMaster(name)
    \/ Finalize

---------------------------------------------------------------------------
(* SoCLocHandler                                                           *)

\* Largest n_locs of the modelled allocators.
MaxLocs == 3

LocNames == {"uart", "timer", "ctrl", "eth"}

\* SoCCSRHandler's n_locs = alignment//8*(2**address_width)//paging.
CSRLocs(alignment, address_width, paging) ==
    ((alignment \div 8) * (2 ^ address_width)) \div paging

Loc(name, n) == [name |-> name, n |-> n]
LocKeys(ls) == {ls[i].name : i \in 1..Len(ls)}
LocValues(ls) == {ls[i].n : i \in 1..Len(ls)}
LocOf(ls, name) == ls[CHOOSE i \in 1..Len(ls) : ls[i].name = name].n

\* locs[name] = n of a Python dict: a new key goes last.
LocSet(ls, name, n) ==
    IF name \in LocKeys(ls)
    THEN [i \in 1..Len(ls) |-> IF ls[i].name = name THEN Loc(name, n) ELSE ls[i]]
    ELSE Append(ls, Loc(name, n))

LocOutcome(ls, res, n, allocated) ==
    [locs |-> ls, result |-> res, n |-> n, allocated |-> allocated]

\* An allocator that hands out the highest free Location.
allocHighest(ls, nl) ==
    IF \E n \in 0..(nl - 1) : n \notin LocValues(ls)
    THEN CHOOSE n \in 0..(nl - 1) :
            /\ n \notin LocValues(ls)
            /\ \A m \in (n + 1)..(nl - 1) : m \in LocValues(ls)
    ELSE None

\* alloc: the first n of range(n_locs) that is in no entry; None stands for
\* its raise.
alloc(ls, nl) ==
    IF \E n \in 0..(nl - 1) : n \notin LocValues(ls)
    THEN CHOOSE n \in 0..(nl - 1) :
            /\ n \notin LocValues(ls)
            /\ \A m \in 0..(n - 1) : m \in LocValues(ls)
    ELSE None

\* A name test that never finds the name.
NameUsedNever(ls, name) == FALSE
\* `name in self.locs.keys()`
NameUsed(ls, name) == name \in LocKeys(ls)

\* A Location test that never finds the Location.
LocUsedNever(ls, given, n) == FALSE
\* `n in self.locs.values()`: None is no value of the dict.
LocUsed(ls, given, n) == given /\ n \in LocValues(ls)

\* A maximum test that also refuses n_locs.
TooHighStrict(n, nl) == n >= nl
\* `n > self.n_locs`
TooHigh(n, nl) == n > nl

\* A reuse that rebinds the name to the Location of the call.
ReuseRebind(ls, name, given, n) ==
    LocOutcome(LocSet(ls, name, IF given THEN n ELSE LocOf(ls, name)), "ok",
               LocOf(ls, name), FALSE)
\* The else branch of add: the Location of the name is read, nothing is
\* written.
Reuse(ls, name, given, n) == LocOutcome(ls, "ok", LocOf(ls, name), FALSE)

\* add(name, n, use_loc_if_exists); `given` is FALSE when n is None.
add(ls, nl, name, given, n, use_loc_if_exists) ==
    IF use_loc_if_exists /\ NameUsed(ls, name)
    THEN Reuse(ls, name, given, n)
    ELSE IF NameUsed(ls, name)
    THEN LocOutcome(ls, "name_used", n, FALSE)
    ELSE IF LocUsed(ls, given, n)
    THEN LocOutcome(ls, "loc_used", n, FALSE)
    ELSE IF ~given
    THEN LET a == alloc(ls, nl)
         IN  IF a = None
             THEN LocOutcome(ls, "no_locs", a, TRUE)
             ELSE LocOutcome(LocSet(ls, name, a), "ok", a, TRUE)
    ELSE IF n < 0
    THEN LocOutcome(ls, "negative", n, FALSE)
    ELSE IF TooHigh(n, nl)
    THEN LocOutcome(ls, "too_high", n, FALSE)
    ELSE LocOutcome(LocSet(ls, name, n), "ok", n, FALSE)

LocCall(op, name, given, n, use_loc_if_exists, got, allocated) ==
    [op |-> op, name |-> name, given |-> given, n |-> n,
     use_loc_if_exists |-> use_loc_if_exists, got |-> got,
     allocated |-> allocated]

NoLocCall == LocCall("init", NoName, FALSE, None, FALSE, None, FALSE)

\* SoCLocHandler(name, n_locs)
InitLoc ==
    /\ locs = <<>>
    /\ n_locs \in 1..MaxLocs
    /\ loc_result = "ok"
    /\ loc_call = NoLocCall

\* An allocator nobody uses.
IdleLoc ==
    /\ locs = <<>>
    /\ n_locs = 1
    /\ loc_result = "ok"
    /\ loc_call = NoLocCall

\* The Locations a call may name: one below and one above [0, n_locs].
LocNumbers == (0 - 1)..(MaxLocs + 1)

Add(name, given, n, use_loc_if_exists) ==
    /\ loc_result = "ok"
    /\ LET out == add(locs, n_locs, name, given, n, use_loc_if_exists)
       IN  /\ locs' = out.locs
           /\ loc_result' = out.result
           /\ loc_call' = LocCall("add", name, given, n, use_loc_if_exists,
                                  out.n, out.allocated)
    /\ UNCHANGED <<n_locs, busvars, finvars, auxvars>>

NextLoc ==
    \E name \in LocNames, given \in BOOLEAN, use \in BOOLEAN :
        \E n \in IF given THEN LocNumbers ELSE {None} :
            Add(name, given, n, use)

---------------------------------------------------------------------------
(* SoCIRQHandler                                                           *)

\* Largest n_irqs the constructor accepts.
MaxIrqs == 32

\* SoCIRQHandler.add: SoCLocHandler.add when the handler is enabled, a
\* raise otherwise.
irq_add(ls, nl, en, name, given, n, use_loc_if_exists) ==
    IF en
    THEN add(ls, nl, name, given, n, use_loc_if_exists)
    ELSE LocOutcome(ls, "irq_disabled", n, FALSE)

\* `for name, n in reserved_irqs.items(): self.add(name, n)`: the entries
\* in order, up to the first raise.
RECURSIVE AddReserved(_, _, _, _)
AddReserved(ls, nl, en, reserved) ==
    IF reserved = <<>>
    THEN [locs |-> ls, result |-> "ok"]
    ELSE LET out == irq_add(ls, nl, en, Head(reserved).name, TRUE,
                            Head(reserved).n, FALSE)
         IN  IF out.result # "ok"
             THEN [locs |-> out.locs, result |-> out.result]
             ELSE AddReserved(out.locs, nl, en, Tail(reserved))

\* SoCIRQHandler(n_irqs, reserved_irqs): the fields the constructor leaves
\* and its raise site.
SoCIRQHandler(n_irqs, reserved_irqs) ==
    IF n_irqs > MaxIrqs
    THEN [locs |-> <<>>, n_locs |-> n_irqs, enabled |-> FALSE,
          result |-> "too_many_irqs"]
    ELSE LET out == AddReserved(<<>>, n_irqs, FALSE, reserved_irqs)
         IN  [locs |-> out.locs, n_locs |-> n_irqs, enabled |-> FALSE,
              result |-> out.result]

\* The n_irqs and reserved_irqs the handlers are constructed with.
IrqCounts == {2, MaxIrqs, MaxIrqs + 1}
IrqNames == {"uart", "timer"}
ReservedIrqs ==
    {<<>>, <<Loc("uart", 0)>>, <<Loc("timer", 1)>>,
     <<Loc("uart", 0), Loc("timer", 1)>>}

\* The arguments of the constructor, and whether it has run.
Irq(n_irqs, reserved_irqs, built) ==
    [n_irqs |-> n_irqs, reserved_irqs |-> reserved_irqs, built |-> built]
NoIrq == Irq(MaxIrqs, <<>>, FALSE)

InitIrq ==
    /\ irq \in {Irq(n, r, FALSE) : n \in IrqCounts, r \in ReservedIrqs}
    /\ locs = <<>>
    /\ n_locs = 1
    /\ loc_result = "ok"
    /\ loc_call = NoLocCall
    /\ enabled = FALSE

\* The handler takes the fields a constructor call left.
IrqBuilt(out) ==
    /\ locs' = out.locs
    /\ n_locs' = out.n_locs
    /\ enabled' = out.enabled
    /\ loc_result' = out.result

\* The handler takes what an add left.
IrqAdded(out, name, given, n, use_loc_if_exists) ==
    /\ locs' = out.locs
    /\ loc_result' = out.result
    /\ loc_call' = LocCall("add", name, given, n, use_loc_if_exists,
                           out.n, out.allocated)

\* irq = SoCIRQHandler(n_irqs, reserved_irqs)
IrqConstruct ==
    /\ ~irq.built
    /\ irq' = Irq(irq.n_irqs, irq.reserved_irqs, TRUE)
    /\ IrqBuilt(SoCIRQHandler(irq.n_irqs, irq.reserved_irqs))
    /\ loc_call' = LocCall("SoCIRQHandler", NoName, FALSE, None, FALSE, None, FALSE)
    /\ UNCHANGED <<busvars, finvars, adapter, twin, made>>

\* irq.enable()
IrqEnable ==
    /\ irq.built
    /\ loc_result = "ok"
    /\ enabled' = TRUE
    /\ loc_call' = LocCall("enable", NoName, FALSE, None, FALSE, None, FALSE)
    /\ UNCHANGED <<locs, n_locs, loc_result, busvars, finvars, adapter, twin,
                   made, irq>>

\* irq.add(name, n, use_loc_if_exists)
IrqAdd(name, given, n, use_loc_if_exists) ==
    /\ irq.built
    /\ loc_result = "ok"
    /\ IrqAdded(irq_add(locs, n_locs, enabled, name, given, n, use_loc_if_exists),
                name, given, n, use_loc_if_exists)
    /\ UNCHANGED <<n_locs, enabled, busvars, finvars, adapter, twin, made, irq>>

NextIrq ==
    \/ IrqConstruct
    \/ IrqEnable
    \/ \E name \in IrqNames, given \in BOOLEAN, use \in BOOLEAN :
          \E n \in IF given THEN LocNumbers ELSE {None} :
              IrqAdd(name, given, n, use)

---------------------------------------------------------------------------
(* SoCBusHandler.add_adapter                                               *)

\* A bus interface: its class (by the name of its standard), data width
\* and addressing.
Interface(standard, data_width, addressing) ==
    [standard |-> standard, data_width |-> data_width,
     addressing |-> addressing]

\* The standard, data width and addressing of a SoCBusHandler.
Bus(standard, data_width) ==
    [standard |-> standard, data_width |-> data_width,
     addressing |-> IF standard = "wishbone" THEN "word" ELSE "byte"]

\* An interface and the modules created on its way.
Adapted(interface, created, res) ==
    [interface |-> interface, created |-> created, result |-> res]

bus_data_width_convert(bus, interface) ==
    IF interface.data_width = bus.data_width
    THEN Adapted(interface, <<>>, "ok")
    ELSE Adapted(Interface(interface.standard, bus.data_width,
                           interface.addressing),
                 <<"converter">>, "ok")

\* An addressing conversion that returns every interface as it is.
bus_addressing_convert_none(bus, interface) == Adapted(interface, <<>>, "ok")

bus_addressing_convert(bus, interface) ==
    IF interface.addressing = bus.addressing
    THEN Adapted(interface, <<>>, "ok")
    ELSE IF interface.standard \in {"axi", "axi-lite", "ahb"}
    THEN Adapted(interface, <<>>, "ok")
    ELSE Adapted(Interface(interface.standard, bus.data_width, bus.addressing),
                 <<"addressing">>, "ok")

\* The keys of bridge_cls: (class of the master, class of the slave).
Bridges ==
    {<<"wishbone", "axi-lite">>, <<"axi-lite", "wishbone">>,
     <<"wishbone", "axi">>, <<"axi-lite", "axi">>, <<"axi", "axi-lite">>,
     <<"axi", "wishbone">>, <<"ahb", "wishbone">>}

bus_standard_convert(bus, interface, direction) ==
    IF interface.standard = bus.standard
    THEN Adapted(interface, <<>>, "ok")
    ELSE LET pair == IF direction = "m2s"
                     THEN <<interface.standard, bus.standard>>
                     ELSE <<bus.standard, interface.standard>>
         IN  IF pair \in Bridges
             THEN Adapted(Interface(bus.standard, bus.data_width, bus.addressing),
                          <<"bridge">>, "ok")
             ELSE Adapted(interface, <<>>, "key_error")

\* add_adapter: the three conversions in the order of the code.
add_adapter(bus, interface, direction) ==
    LET a == bus_data_width_convert(bus, interface)
        b == bus_addressing_convert(bus, a.interface)
        c == bus_standard_convert(bus, b.interface, direction)
    IN  Adapted(c.interface, a.created \o b.created \o c.created, c.result)

\* add_remapper and add_offset: a new interface of the class, data width
\* and addressing of the given one.
add_remapper(interface) ==
    Adapted(Interface(interface.standard, interface.data_width,
                      interface.addressing), <<"remapper">>, "ok")
add_offset(interface) ==
    Adapted(Interface(interface.standard, interface.data_width,
                      interface.addressing), <<"offset">>, "ok")

\* The interface work of add_master (direction m2s, remapped when a region
\* is given) and of add_slave (direction s2m, offset when strip_origin).
Register(bus, op, interface, extra) ==
    LET first == IF ~extra THEN Adapted(interface, <<>>, "ok")
                 ELSE IF op = "add_master" THEN add_remapper(interface)
                 ELSE add_offset(interface)
        out   == add_adapter(bus, first.interface,
                             IF op = "add_master" THEN "m2s" ELSE "s2m")
    IN  Adapted(out.interface, first.created \o out.created, out.result)

\* The data widths of the modelled buses and interfaces.
DataWidths == {32, 64, 128}
Standards == {"wishbone", "axi-lite", "axi"}

\* wishbone.Interface is word or byte addressed; the AXI interfaces are
\* byte addressed.
Interfaces ==
    {Interface("wishbone", w, a) : w \in DataWidths, a \in {"word", "byte"}}
    \cup {Interface(st, w, "byte") : st \in {"axi-lite", "axi"}, w \in DataWidths}

NoInterface == Interface("none", 0, "none")

AdapterState(bus, op, given, extra, out) ==
    [bus |-> bus, op |-> op, given |-> given, extra |-> extra,
     registered |-> out.interface, created |-> out.created,
     result |-> out.result]

NoAdapter(bus) ==
    AdapterState(bus, "init", NoInterface, FALSE, Adapted(NoInterface, <<>>, "ok"))

\* SoCBusHandler(standard, data_width)
InitAdapter ==
    \E st \in Standards, w \in DataWidths : adapter = NoAdapter(Bus(st, w))

---------------------------------------------------------------------------
(* SoCRegion(...) and SoCIORegion(...) on their own.                       *)

\* Largest size a region is constructed with.
MaxSize == 70

\* The arguments of a constructor call and the object it returned.
Made(io, size, region, built) ==
    [io |-> io, size |-> size, region |-> region, built |-> built]
NoMade == Made(FALSE, 0, NoRegion, FALSE)

InitMade ==
    made \in {Made(io, size, NoRegion, FALSE) :
                io \in BOOLEAN, size \in 0..MaxSize}

\* SoCRegion(size=size) or SoCIORegion(size=size)
Construct ==
    /\ ~made.built
    /\ made' = Made(made.io, made.size,
                    IF made.io
                    THEN SoCIORegion(None, made.size, "rw", FALSE, FALSE, TRUE)
                    ELSE SoCRegion(None, made.size, "rw", TRUE, FALSE, TRUE),
                    TRUE)
    /\ UNCHANGED <<busvars, locvars, finvars, adapter, enabled, twin, irq>>

NextMade == Construct

---------------------------------------------------------------------------
(* Two buses given the same calls                                          *)

\* The collections of a bus and the raise site of its last call.
BusState(rs, ios, sl, ms, res) ==
    [regions |-> rs, io_regions |-> ios, slaves |-> sl, masters |-> ms,
     result |-> res]

\* SoCBusHandler()
NewBus == BusState(<<>>, <<>>, <<>>, <<>>, "ok")

\* One call of add_region, add_master or add_slave with its arguments
\* (NoName and NoRegion for the ones left out) on the bus b.
\* The bus b after a call that left the fields of out.
AfterRegion(b, out) ==
    BusState(out.regions, out.io_regions, b.slaves, b.masters, out.result)
AfterSlave(b, out) ==
    BusState(out.regions, out.io_regions, out.slaves, b.masters, out.result)
AfterMaster(b, out) ==
    BusState(b.regions, b.io_regions, b.slaves, out.masters, out.result)

Apply(b, op, name, region) ==
    IF op = "add_region"
    THEN AfterRegion(b, add_region(b.regions, b.io_regions, TRUE, name, region))
    ELSE IF op = "add_slave"
    THEN AfterSlave(b, add_slave(b.regions, b.io_regions, b.slaves, TRUE, name, region))
    ELSE AfterMaster(b, add_master(b.masters, name))

\* Longest sequence of calls that is replayed.
MaxTwinCalls == 3

TwinNames == {"rom"}
TwinRegionRequests ==
    {SoCRegion(None, sz, "rw", c, FALSE, TRUE) : sz \in {3, 5}, c \in BOOLEAN}
    \cup {SoCRegion(0, 4, "rw", TRUE, FALSE, TRUE),
          SoCIORegion(8, 8, "rw", FALSE, FALSE, TRUE)}

\* The calls of the first bus so far, the second bus, and the number of
\* calls the second bus has replayed.
Twin(hist, pos, b) == [hist |-> hist, pos |-> pos, bus |-> b]
NoTwin == Twin(<<>>, 0, NewBus)

\* The first bus as a BusState.
FirstBus == BusState(regions, io_regions, slaves, masters, result)

\* The first bus becomes b.
SetFirstBus(b) ==
    /\ regions' = b.regions
    /\ io_regions' = b.io_regions
    /\ slaves' = b.slaves
    /\ masters' = b.masters
    /\ result' = b.result

\* A call on the first bus, recorded for the second.
TwinCall(op, name, region) ==
    /\ result = "ok"
    /\ twin.pos = 0
    /\ Len(twin.hist) < MaxTwinCalls
    /\ SetFirstBus(Apply(FirstBus, op, name, region))
    /\ call' = Call(op, name, region, FALSE)
    /\ twin' = Twin(Append(twin.hist, [op |-> op, name |-> name, region |-> region]),
                    0, twin.bus)
    /\ UNCHANGED <<io_regions_check, locvars, interconnect, finalized,
                   _interconnect, adapter, enabled, made, irq>>

\* The second bus is given the next call of the first.
TwinReplay ==
    /\ twin.pos < Len(twin.hist)
    /\ twin.bus.result = "ok"
    /\ LET c == twin.hist[twin.pos + 1]
       IN  twin' = Twin(twin.hist, twin.pos + 1,
                       Apply(twin.bus, c.op, c.name, c.region))
    /\ UNCHANGED <<busvars, locvars, finvars, adapter, enabled, made, irq>>

\* The calls given to the two buses.
TwinCalls ==
    {<<"add_region", name, region>> :
        name \in TwinNames, region \in TwinRegionRequests}
    \cup {<<"add_slave", name, region>> :
        name \in TwinNames \cup {NoName},
        region \in TwinRegionRequests \cup {NoRegion}}
    \cup {<<"add_master", name, NoRegion>> : name \in {"master1", NoName}}

NextTwin ==
    \/ \E c \in TwinCalls : TwinCall(c[1], c[2], c[3])
    \/ TwinReplay

\* Bus and IRQ handler that nobody uses.
IdleAux ==
    /\ adapter = NoAdapter(Bus("wishbone", DataWidth))
    /\ enabled = TRUE
    /\ twin = NoTwin
    /\ made = NoMade
    /\ irq = NoIrq

\* add_master / add_slave as far as the interface is concerned.
AddInterface(op, interface, extra) ==
    /\ adapter.result = "ok"
    /\ adapter' = AdapterState(adapter.bus, op, interface, extra,
                               Register(adapter.bus, op, interface, extra))
    /\ UNCHANGED <<busvars, locvars, finvars, enabled, twin, made, irq>>

NextAdapter ==
    \E op \in {"add_master", "add_slave"}, interface \in Interfaces,
       extra \in BOOLEAN :
        AddInterface(op, interface, extra)

---------------------------------------------------------------------------
(* The specifications.                                                     *)

\* A bus nobody finalizes.
IdleFin ==
    /\ masters = <<>>
    /\ interconnect = "shared"
    /\ finalized = FALSE
    /\ _interconnect = NoInterconnect

\* The address-space bookkeeping of one bus.
InitSpec == Init /\ IdleLoc /\ IdleFin /\ IdleAux

Spec == InitSpec /\ [][Next]_vars

\* One SoCLocHandler.
InitSpecLoc == InitLoc /\ Init /\ IdleFin /\ IdleAux

SpecLoc == InitSpecLoc /\ [][NextLoc]_vars

InitSpecBus == Init /\ IdleLoc /\ InitFin /\ IdleAux

\* One bus from its construction to its finalization and after.
SpecBus == InitSpecBus /\ [][NextBus]_vars

InitSpecAdapter ==
    Init /\ IdleLoc /\ IdleFin /\ InitAdapter /\ enabled = TRUE /\ twin = NoTwin
    /\ made = NoMade
    /\ irq = NoIrq

\* The interfaces handed to one bus.
SpecAdapter == InitSpecAdapter /\ [][NextAdapter]_vars

InitSpecTwin == Init /\ IdleLoc /\ IdleFin /\ IdleAux

\* Two identically configured buses, the second given the calls of the
\* first.
SpecTwin == InitSpecTwin /\ [][NextTwin]_vars

InitSpecMade ==
    /\ Init /\ IdleLoc /\ IdleFin
    /\ adapter = NoAdapter(Bus("wishbone", DataWidth))
    /\ enabled = TRUE
    /\ twin = NoTwin
    /\ InitMade
    /\ irq = NoIrq
SpecMade == InitSpecMade /\ [][NextMade]_vars

InitSpecIrq ==
    /\ Init /\ IdleFin
    /\ adapter = NoAdapter(Bus("wishbone", DataWidth))
    /\ twin = NoTwin
    /\ made = NoMade
    /\ InitIrq
SpecIrq == InitSpecIrq /\ [][NextIrq]_vars

---------------------------------------------------------------------------
(* Helpers of the properties.                                              *)

\* The last call handed add_region a region (directly or through add_slave).
RegionCall ==
    \/ call.op = "add_region"
    \/ (call.op = "add_slave" /\ call.region # NoRegion)

\* The last call allocated a region and recorded it.
Allocated == result = "ok" /\ RegionCall /\ call.allocated

\* The region the last call recorded in `regions`.
Recorded == Lookup(regions, call.name)

\* `regions` as it was before the last call, when that call allocated.
Before == SubSeq(regions, 1, Len(regions) - 1)

FootprintsDisjoint(r0, r1) ==
    \/ r0.origin + r0.size_pow2 <= r1.origin
    \/ r1.origin + r1.size_pow2 <= r0.origin

NonLinkerDisjoint(d) ==
    \A i, j \in 1..Len(d) :
        (i # j /\ ~d[i].region.linker /\ ~d[j].region.linker)
            => FootprintsDisjoint(d[i].region, d[j].region)

\* [origin, origin + size) of r lies inside [origin, origin + size) of some
\* I/O region.
InsideSomeIORegion(r) ==
    \E i \in 1..Len(io_regions) :
        /\ io_regions[i].region.origin <= r.origin
        /\ r.origin + r.size <= io_regions[i].region.origin + io_regions[i].region.size

\* Addresses wide enough for every footprint of the model.
Addresses == 0..(2 ^ (AddressWidth + 2))

---------------------------------------------------------------------------
(* Properties.                                                             *)

\* C1: as long as every add_region / add_slave call has succeeded, any two
\* distinct non-linker regions of `regions` have disjoint footprints
\* [origin, origin + size_pow2), and so have any two of `io_regions`.
C1_NonOverlap ==
    result = "ok" => (NonLinkerDisjoint(regions) /\ NonLinkerDisjoint(io_regions))

C1_Witness ==
    /\ result = "ok"
    /\ Len(regions) = 3
    /\ \A i \in 1..3 : ~regions[i].region.linker
    /\ \E i \in 1..3 : regions[i].region.origin = 8
    /\ Len(slaves) = 1

\* C2: a failing add_region leaves `regions` and `io_regions` as they were
\* before the call.
C2_FailedAddRegionRecordsNothing ==
    [][(call'.op = "add_region" /\ result' # "ok")
          => (regions' = regions /\ io_regions' = io_regions)]_vars

\* C3: every region recorded in `regions` has an origin that is a multiple
\* of its size_pow2.
C3_RecordedOriginAligned ==
    result = "ok" =>
        \A i \in 1..Len(regions) :
            regions[i].region.origin % regions[i].region.size_pow2 = 0

\* C4: a region added without an explicit origin is recorded with an origin
\* that is a multiple of its size_pow2.
C4_AllocatedOriginAligned ==
    Allocated => (Recorded.origin # None /\ Recorded.origin % Recorded.size_pow2 = 0)

\* An allocation that had to step over a region and realign: size 3 at 4.
C4_Witness ==
    /\ Allocated
    /\ call.region.size = 3
    /\ Recorded.origin = 4

\* C5: with the I/O check enabled, add_region of a region with an explicit
\* origin and a fresh name raises the cached-in-I/O error exactly when the
\* region is cached and inside some I/O region, raises the not-in-I/O error
\* exactly when it is not cached and inside no I/O region (a name already
\* declared fails anyway).
C5_Classification ==
    (RegionCall /\ ~call.region.io /\ call.region.origin # None /\ io_regions_check)
        => /\ (call.region.cached /\ InsideSomeIORegion(call.region)) => result # "ok"
           /\ (~call.region.cached /\ ~InsideSomeIORegion(call.region)) => result # "ok"
           /\ result # "duplicate" =>
                /\ result = "io_cached"
                      <=> (call.region.cached /\ InsideSomeIORegion(call.region))
                /\ result = "not_io"
                      <=> (~call.region.cached /\ ~InsideSomeIORegion(call.region))

C5_Witness ==
    /\ RegionCall
    /\ io_regions_check
    /\ result = "io_cached"
    /\ Len(io_regions) = 2
    /\ ~check_region_is_in(call.region, io_regions[1].region)

\* C6: a region allocated with cached = false lies inside some I/O region.
C6_AllocatedUncachedInsideIO ==
    (Allocated /\ ~call.region.cached) => InsideSomeIORegion(Recorded)

\* C7: a region allocated with cached = true lies inside no I/O region.
C7_AllocatedCachedOutsideIO ==
    (Allocated /\ call.region.cached) => ~InsideSomeIORegion(Recorded)

\* The lowest address from `base` on that is a multiple of size_pow2 and
\* whose footprint meets no non-linker region of rs.
FreeAt(rs, a, size_pow2) ==
    /\ a % size_pow2 = 0
    /\ \A i \in 1..Len(rs) :
          rs[i].region.linker
            \/ a + size_pow2 <= rs[i].region.origin
            \/ rs[i].region.origin + rs[i].region.size_pow2 <= a

FirstFit(rs, base, size_pow2) ==
    CHOOSE a \in Addresses :
        /\ a >= base
        /\ FreeAt(rs, a, size_pow2)
        /\ \A b \in Addresses : (b >= base /\ FreeAt(rs, b, size_pow2)) => a <= b

\* Scenario A in units of 0x1000 bytes: rom at 0 of size 0x2000, a 32-bit
\* bus, a cached region of size 0x10000.
ScenarioA ==
    alloc_region(<<Entry("rom", SoCRegion(0, 2, "rw", TRUE, FALSE, TRUE))>>, <<>>,
                 16, TRUE, 20).origin = 16

\* C8: an allocated origin is the first fit of its search region: the
\* lowest multiple of size_pow2 from the search region's base on whose
\* footprint meets no non-linker region recorded before; the search regions
\* before it, in insertion order, had their first fit reach their end.  In
\* Scenario A the origin is 0x10000.
C8_FirstFit ==
    /\ ScenarioA
    /\ Allocated =>
         LET sr == SearchRegions(io_regions, call.region.cached, AddressWidth)
             p  == Recorded.size_pow2
         IN  \E k \in 1..Len(sr) :
                /\ Recorded.origin = FirstFit(Before, sr[k].region.origin, p)
                /\ \A j \in 1..(k - 1) :
                      FirstFit(Before, sr[j].region.origin, p) + Recorded.size
                          >= sr[j].region.origin + sr[j].region.size_pow2

\* The allocation of Scenario A, scaled: a region at 0, the next cached
\* region of size 4 lands at 4.
C8_Witness ==
    /\ Allocated
    /\ Len(regions) = 2
    /\ regions[1].region.origin = 0
    /\ regions[1].region.size = 3
    /\ ~regions[1].region.linker
    /\ call.region.cached
    /\ call.region.size = 4
    /\ Recorded.origin = 4

\* Some search region holds an aligned origin where [origin, origin + size)
\* fits and whose footprint meets no non-linker region of rs.
CandidateExists(rs, search_regions, size) ==
    \E k \in 1..Len(search_regions), a \in Addresses :
        /\ a >= search_regions[k].region.origin
        /\ a + size <= search_regions[k].region.origin + search_regions[k].region.size
        /\ FreeAt(rs, a, SizePow2(size))

\* C9: alloc_region raises the out-of-space error exactly when no candidate
\* exists.
C9_NoSpaceIffNoCandidate ==
    (RegionCall /\ ~call.region.io /\ call.region.origin = None
                /\ result \in {"ok", "no_space"})
        => LET sr == SearchRegions(io_regions, call.region.cached, AddressWidth)
               rs == IF result = "ok" THEN Before ELSE regions
           IN  (result = "no_space") <=> ~CandidateExists(rs, sr, call.region.size)

\* C10: add_region raises the duplicate-name error whenever the name is a key
\* of `regions` or of `io_regions`, for an I/O region and for a regular one.
C10_DuplicateName ==
    [][((call'.op = "add_region" \/ (call'.op = "add_slave" /\ call'.region # NoRegion))
          /\ (call'.name \in Keys(regions) \/ call'.name \in Keys(io_regions)))
          => (result' = "duplicate" /\ regions' = regions /\ io_regions' = io_regions)]_vars

\* An I/O region refused for the name of a regular region.
C10_Witness ==
    /\ call.op = "add_region"
    /\ result = "duplicate"
    /\ call.region.io
    /\ call.name \in Keys(regions)

---------------------------------------------------------------------------
(* SoCLocHandler: properties of SpecLoc.                                   *)

\* The last call was add.
AddCall == loc_call.op = "add"

\* The lowest integer of [0, nl) that no entry of ls holds.
LowestUnused(ls, nl) ==
    CHOOSE n \in 0..(nl - 1) :
        /\ n \notin LocValues(ls)
        /\ \A m \in 0..(n - 1) : m \in LocValues(ls)

\* `locs` holds 0, 1, ... in this order: what auto-reservations alone leave.
Packed(ls) == \A i \in 1..Len(ls) : ls[i].n = i - 1

\* C11: every Location held in `locs` lies in [0, n_locs).
C11_LocsInRange ==
    \A i \in 1..Len(locs) : 0 <= locs[i].n /\ locs[i].n < n_locs

\* C12: no two names of `locs` hold the same Location.
C12_LocsInjective ==
    \A i, j \in 1..Len(locs) :
        i # j => (locs[i].n # locs[j].n /\ locs[i].name # locs[j].name)

\* Three names are held, at least one pinned outside the packed order, and
\* the last call reused a held name while naming the Location of another.
C12_Witness ==
    /\ Len(locs) = 3
    /\ loc_result = "ok"
    /\ ~Packed(locs)
    /\ AddCall /\ loc_call.use_loc_if_exists /\ loc_call.given
    /\ loc_call.got # loc_call.n
    /\ loc_call.n \in LocValues(locs)

\* C13: an add without a Location for a fresh name takes the lowest unused
\* integer of [0, n_locs) and fails when all of them are used; on a packed
\* allocator it takes Len(locs) until n_locs are held and then fails; a CSR
\* space of address width 14, paging 0x800 and alignment 32 has 32
\* Locations.
C13_AllocLowestUnused ==
    [][/\ CSRLocs(32, 14, 2048) = 32
       /\ (loc_call'.op = "add" /\ ~loc_call'.given
              /\ loc_call'.name \notin LocKeys(locs))
          => /\ IF \A n \in 0..(n_locs - 1) : n \in LocValues(locs)
                THEN loc_result' = "no_locs" /\ locs' = locs
                ELSE /\ loc_result' = "ok"
                     /\ locs' = Append(locs, Loc(loc_call'.name,
                                                 LowestUnused(locs, n_locs)))
             /\ Packed(locs)
                => IF Len(locs) < n_locs
                   THEN /\ loc_result' = "ok"
                        /\ loc_call'.got = Len(locs)
                        /\ Packed(locs')
                   ELSE loc_result' = "no_locs"]_vars

\* The largest allocator is packed with n_locs names and the next
\* auto-reservation has failed.
C13_Witness ==
    /\ n_locs = MaxLocs
    /\ Len(locs) = n_locs
    /\ Packed(locs)
    /\ AddCall /\ ~loc_call.given /\ loc_call.allocated
    /\ loc_result = "no_locs"

\* C14: add with use_loc_if_exists for a held name succeeds and leaves
\* `locs` as it was, whatever Location the call names.
C14_ReuseKeepsLocs ==
    [][(loc_call'.op = "add" /\ loc_call'.use_loc_if_exists
          /\ loc_call'.name \in LocKeys(locs))
          => (loc_result' = "ok" /\ locs' = locs)]_vars

\* A reuse that named a Location above n_locs, while another name holds
\* n_locs itself.
C14_Witness ==
    /\ AddCall /\ loc_call.use_loc_if_exists /\ loc_call.given
    /\ loc_call.n > n_locs
    /\ loc_result = "ok"
    /\ loc_call.name \in LocKeys(locs)
    /\ loc_call.got = LocOf(locs, loc_call.name)
    /\ Len(locs) >= 2

\* C15: add without reuse fails for a held name, and fails when the
\* Location it names is held by another name; `locs` is unchanged.
C15_NoReuseConflictFails ==
    [][(loc_call'.op = "add" /\ ~loc_call'.use_loc_if_exists
          /\ \/ loc_call'.name \in LocKeys(locs)
             \/ /\ loc_call'.given
                /\ \E i \in 1..Len(locs) :
                      locs[i].n = loc_call'.n /\ locs[i].name # loc_call'.name)
          => (loc_result' # "ok" /\ locs' = locs)]_vars

\* A fresh name asked without reuse for a Location another name holds.
C15_Witness ==
    /\ AddCall /\ ~loc_call.use_loc_if_exists /\ loc_call.given
    /\ loc_call.name \notin LocKeys(locs)
    /\ loc_call.n \in LocValues(locs)
    /\ loc_result = "loc_used"

\* C16: add with a Location n, for a fresh name and an unused n, succeeds
\* exactly when 0 <= n <= n_locs and records n; otherwise it fails with a
\* bounds error and leaves `locs` unchanged.
C16_ExplicitBounds ==
    [][(loc_call'.op = "add" /\ loc_call'.given
          /\ loc_call'.name \notin LocKeys(locs)
          /\ loc_call'.n \notin LocValues(locs))
          => IF 0 <= loc_call'.n /\ loc_call'.n <= n_locs
             THEN /\ loc_result' = "ok"
                  /\ locs' = Append(locs, Loc(loc_call'.name, loc_call'.n))
             ELSE /\ loc_result' \in {"negative", "too_high"}
                  /\ locs' = locs]_vars

\* A fresh name pinned to n_locs itself.
C16_Witness ==
    /\ AddCall /\ loc_call.given /\ ~loc_call.use_loc_if_exists
    /\ loc_call.n = n_locs
    /\ loc_result = "ok"
    /\ locs[Len(locs)] = Loc(loc_call.name, n_locs)

---------------------------------------------------------------------------
(* Finalization: properties of SpecBus.                                    *)

\* The step is the first finalize of a bus with a master and a slave.
FirstFinalize ==
    /\ call'.op = "finalize"
    /\ ~finalized
    /\ Len(masters) >= 1
    /\ Len(slaves) >= 1

\* The region a slave was registered with, whichever collection holds it.
SlaveRegion(name) ==
    IF name \in Keys(regions) THEN Lookup(regions, name)
    ELSE Lookup(io_regions, name)

\* One master, one slave, and the region of that slave starts at 0.
OneToOneAtZero ==
    /\ Len(masters) = 1
    /\ Len(slaves) = 1
    /\ SlaveRegion(slaves[1].name).origin = 0

\* Bytes of a bus word, and the word addresses of the bus.
WordBytes == DataWidth \div 8
WordAddresses == 0..(((2 ^ AddressWidth) \div WordBytes) - 1)

\* The word a lies in the footprint [origin, origin + size_pow2) of r.
InFootprint(r, a) ==
    r.origin <= a * WordBytes /\ a * WordBytes < r.origin + r.size_pow2

\* The interconnect is the shared or crossbar one.
Decoding == _interconnect.kind \in {"shared", "crossbar"}

\* C17: a successful finalize of a bus with a master and a slave builds the
\* point-to-point interconnect exactly when there is one master, one slave
\* and the region of that slave has origin 0, and the configured shared or
\* crossbar interconnect otherwise.
C17_PointToPointIff ==
    [][(FirstFinalize /\ result' = "ok")
          => IF OneToOneAtZero
             THEN _interconnect'.kind = "p2p"
             ELSE _interconnect'.kind = interconnect]_vars

C19_TwoDecodeDisabledFails ==
    [][(FirstFinalize
          /\ Cardinality({i \in 1..Len(regions) : ~regions[i].region.decode}) > 1)
          => result' # "ok"]_vars

\* C20: after finalize every add_region, add_master and add_slave fails
\* with a state error and leaves regions, io_regions, masters and slaves
\* as they were.
C20_FrozenAfterFinalize ==
    [][(finalized /\ call'.op \in {"add_region", "add_master", "add_slave"})
          => /\ result' = "state_error"
             /\ UNCHANGED <<regions, io_regions, masters, slaves>>]_vars

\* C21: a finalize after a successful finalize raises nothing, selects no
\* topology again and leaves the interconnect and the collections as they
\* were.
C21_FinalizeIdempotent ==
    [][(finalized /\ call'.op = "finalize")
          => /\ result' = "ok"
             /\ UNCHANGED <<_interconnect, regions, io_regions, masters, slaves>>]_vars

\* A finalize was the last call, on collections for which do_finalize would
\* now build another interconnect than the one the bus holds: the
\* collections grew after the first finalize and finalize was called again.
C21_Witness ==
    /\ call.op = "finalize"
    /\ result = "ok"
    /\ _interconnect.kind = "p2p"
    /\ do_finalize(masters, slaves, regions, interconnect)._interconnect.kind
          = interconnect

\* C22: add_slave under a name that `slaves` holds fails with a
\* duplicate-name error and leaves `slaves` as it was, with a region in the
\* call or without one.
C22_DuplicateSlaveFails ==
    [][(call'.op = "add_slave" /\ call'.name \in Keys(slaves))
          => /\ result' \in {"duplicate", "slave_duplicate"}
             /\ slaves' = slaves]_vars

---------------------------------------------------------------------------
(* add_adapter: properties of SpecAdapter.                                 *)

\* The interface has the standard, data width and addressing of the bus.
MatchesBus(bus, interface) ==
    /\ interface.standard = bus.standard
    /\ interface.data_width = bus.data_width
    /\ interface.addressing = bus.addressing

\* C23: the interface registered by add_master / add_slave has the
\* standard, data width and addressing of the bus; an interface that has
\* them already is registered as it is and no converter or bridge is
\* created.
C23_RegisteredMatchesBus ==
    adapter.op \in {"add_master", "add_slave"}
        => /\ adapter.result = "ok"
           /\ MatchesBus(adapter.bus, adapter.registered)
           /\ MatchesBus(adapter.bus, adapter.given)
                => /\ adapter.registered = adapter.given
                   /\ \A i \in 1..Len(adapter.created) :
                         adapter.created[i] \notin {"converter", "addressing", "bridge"}

\* A byte-addressed 64-bit Wishbone slave on a 32-bit AXI-Lite bus went
\* through a converter and a bridge.
C23_Witness ==
    /\ adapter.op = "add_slave"
    /\ adapter.bus = Bus("axi-lite", 32)
    /\ adapter.given = Interface("wishbone", 64, "byte")
    /\ adapter.created = <<"converter", "bridge">>
    /\ adapter.registered = Interface("axi-lite", 32, "byte")

---------------------------------------------------------------------------
(* Replay: properties of SpecTwin.                                         *)

---------------------------------------------------------------------------
(* Construction: properties of SpecMade.                                   *)

IsPow2(p) == \E k \in 0..BitLength(p) : p = 2 ^ k

\* C25: a region constructed with a size of at least 1 has as size_pow2 the
\* smallest power of two that is not below the size, and its size field is
\* the size it was given.
C25_SizePow2Smallest ==
    (made.built /\ made.size >= 1) =>
        /\ IsPow2(made.region.size_pow2)
        /\ made.region.size_pow2 >= made.size
        /\ \A p \in 1..(made.region.size_pow2 - 1) :
              IsPow2(p) => p < made.size
        /\ made.region.size = made.size

\* A size that is rounded (5 to 8) has been constructed.
C25_Witness ==
    /\ made.built
    /\ made.size = 5
    /\ made.region.size_pow2 = 8
    /\ made.region.size = 5

---------------------------------------------------------------------------
(* Allocation frame: a property of Spec.                                   *)

\* C26: a region recorded by an add_region that allocated its origin has
\* the size, mode, cached, linker and decode attributes of the request;
\* only the origin differs.
C26_AllocKeepsAttributes ==
    Allocated => Recorded = [call.region EXCEPT !.origin = Recorded.origin]

---------------------------------------------------------------------------
(* Slaves and regions: properties of SpecBus.                              *)

\* C27: every name in `slaves` is a key of `regions`.
C27_SlavesHaveRegions ==
    result = "ok" => \A i \in 1..Len(slaves) : slaves[i].name \in Keys(regions)

---------------------------------------------------------------------------
(* Default master names: a property of SpecTwin.                           *)

\* The last call the first bus was given.
LastCall == twin.hist[Len(twin.hist)]

\* C28: an add_master without a name never ends at the raise of a master
\* name that is already declared.
C28_DefaultMasterNameFree ==
    (/\ Len(twin.hist) > 0
     /\ LastCall.op = "add_master"
     /\ LastCall.name = NoName) => result # "master_duplicate"

---------------------------------------------------------------------------
(* Decoders of one interconnect: a property of SpecBus.                    *)

\* The slaves of the interconnect whose decoder is true on the word a.
Selected(a) ==
    {i \in 1..Len(_interconnect.slaves) :
        Decode(_interconnect.slaves[i].decoder, a)}

\* C29: in a shared or crossbar interconnect with two or more slaves, at
\* most one decoder is true on any word address.
C29_DecodersExclusive ==
    (Decoding /\ Len(_interconnect.slaves) >= 2)
        => \A a \in WordAddresses : Cardinality(Selected(a)) <= 1

---------------------------------------------------------------------------
(* SoCIRQHandler: a property of SpecIrq.                                   *)

\* C30: a SoCIRQHandler constructed with n_irqs <= 32 and a non-empty
\* reserved_irqs has raised nothing and holds every reserved name at its
\* reserved number.
C30_ReservedIrqsRecorded ==
    (/\ irq.built
     /\ loc_call.op = "SoCIRQHandler"
     /\ irq.n_irqs <= MaxIrqs
     /\ irq.reserved_irqs # <<>>)
        => /\ loc_result = "ok"
           /\ \A i \in 1..Len(irq.reserved_irqs) :
                 /\ irq.reserved_irqs[i].name \in LocKeys(locs)
                 /\ LocOf(locs, irq.reserved_irqs[i].name) = irq.reserved_irqs[i].n

====
